---- MODULE Spec2Model ----
(***************************************************************************)
(* Room Session Manager of the lobby server (src/server.mjs).              *)
(*                                                                         *)
(* The server is one Node.js process: a request handler runs without       *)
(* interruption from one `await` to the next, and other requests run       *)
(* while it awaits its body (readBody).  Each action below is one such     *)
(* uninterrupted segment of a handler.  A handler with code before its     *)
(* `await readBody(req)` is split at the await: the first segment leaves a *)
(* record in `inflight`, the second segment consumes it.  What a segment   *)
(* does to the store and what it answers is an operator of the store and   *)
(* the request (the ...Handler, ...Check and ...Resume operators); the      *)
(* actions apply these operators.  A refused request changes nothing, so   *)
(* it is a stuttering step.                                                *)
(*                                                                         *)
(* randomUUID() is modelled as a fresh identifier: user ids and session    *)
(* tokens are the next unused number, room ids the next unused room        *)
(* number.  History entries omit their random id and their timestamp.      *)
(***************************************************************************)
EXTENDS Integers, Sequences, FiniteSets, Bags, TLC

\* ------------------------------------------------------------------ bounds
MaxRevision == 4    \* mutations accepted per room
MaxInFlight == 2    \* requests awaiting their body at once
MaxCrowdRevision == 5    \* mutations accepted per room with five users

\* Display names offered to Register; "ann" differs from a registered name
\* only in case.
Usernames == {"ann", "Cy"}

\* JSON texts a client may send as the `state` member of a body
\* ("undefined": the member is absent).
StateTexts == {"undefined", "0", "{}", "1e999"}

\* JSON texts a client may send as `maxPlayers`.
MaxPlayersTexts == {"undefined", "0", "1", "2", "3", "4", "5", "\"abc\""}

\* Identifiers randomUUID may draw for users (and their tokens) and for rooms,
\* and a room id that it never draws.
UserIds == {1, 2, 3}
RoomIds == {1}
UnknownRoom == 9

\* Absent values: no bearer token, no reportWinnerId member.
NoToken == 0
NoWinner == 0

VARIABLES
    db,           \* the in-memory store: users, sessions, rooms, history
    diskCurrent,  \* whether DB_FILE holds the store as it is now
    inflight,     \* the bag of requests awaiting their body
    accepted,     \* per room id: mutations applied to the room so far
    starts,       \* per room id: starts applied to the room so far
    reports       \* per room id: state updates so far that named a seated winner

vars == <<db, diskCurrent, inflight, accepted, starts, reports>>

\* ------------------------------------------------------------- JS values
\* A JS value is named by a string; numbers used as maxPlayers are records
\* [nan, n] so that NaN comparisons can be modelled.

\* JSON.parse of a member's text: a number too large for a double parses to
\* Infinity, every other text to the value it denotes.
JSONparse(text) == IF text = "1e999" THEN "Infinity" ELSE text

\* JSON.parse(JSON.stringify(v)): Infinity serialises as null.
JSONcopy(v) == IF v = "Infinity" THEN "null" ELSE v

\* JS truthiness of a value.
Truthy(v) == v \notin {"undefined", "null", "0", "false", "\"\""}

Num(k) == [nan |-> FALSE, n |-> k]
NaN == [nan |-> TRUE, n |-> 0]

\* Number(v) for the values offered as maxPlayers.
Number(v) ==
    CASE v = "1" -> Num(1)
      [] v = "2" -> Num(2)
      [] v = "3" -> Num(3)
      [] v = "4" -> Num(4)
      [] v = "5" -> Num(5)
      [] v \in {"0", "null", "false", "\"\""} -> Num(0)
      [] OTHER -> NaN

\* Math.min / Math.max: NaN if either argument is NaN.
MathMin(a, b) == IF a.nan \/ b.nan THEN NaN ELSE IF a.n <= b.n THEN a ELSE b
MathMax(a, b) == IF a.nan \/ b.nan THEN NaN ELSE IF a.n >= b.n THEN a ELSE b

\* len >= x for an integer len and a JS number x: false when x is NaN.
GreaterOrEqual(len, x) == ~x.nan /\ len >= x.n

\* String.prototype.toLowerCase on the display names.
ToLowerCase(name) ==
    CASE name = "Ann" -> "ann"
      [] name = "Bob" -> "bob"
      [] name = "Cy" -> "cy"
      [] OTHER -> name

\* ------------------------------------------------------------- the store
defaultDb == [users |-> <<>>, sessions |-> <<>>, rooms |-> <<>>, history |-> <<>>]

\* A registered user as POST /api/register creates it.
NewUser(id, username) ==
    [id |-> id, username |-> username, stats |-> [wins |-> 0, losses |-> 0, vs |-> <<>>]]

\* The store read back from DB_FILE at start-up: the server has run before
\* and two users registered then; without the file it would be defaultDb.
loadedDb == [defaultDb EXCEPT !.users = <<NewUser(1, "Ann"), NewUser(2, "Bob")>>,
                              !.sessions = <<1, 2>>]

\* Index in db.users of the user with this id, 0 if there is none
\* (db.users.find(u => u.id === id)).
FindUser(users, id) ==
    IF \E i \in 1..Len(users) : users[i].id = id
    THEN CHOOSE i \in 1..Len(users) : users[i].id = id
    ELSE 0

\* Index in room.players of the seat of this user id, 0 if there is none
\* (room.players.find(p => p.id === id)); find returns the first match.
FindSeat(players, id) ==
    IF \E i \in 1..Len(players) : players[i].id = id
    THEN CHOOSE i \in 1..Len(players) :
            players[i].id = id /\ \A j \in 1..(i-1) : players[j].id # id
    ELSE 0

\* authUser: the user id behind a bearer token, 0 (null) if there is none.
authUser(d, token) ==
    IF token = NoToken \/ token \notin DOMAIN d.sessions THEN 0
    ELSE IF FindUser(d.users, d.sessions[token]) = 0 THEN 0
    ELSE d.sessions[token]

\* sanitizeRoom: the view of a room sent to requesterId.
sanitizeRoom(room, requesterId) ==
    [id |-> room.id, hostId |-> room.hostId,
     players |-> [i \in 1..Len(room.players) |->
                    [id |-> room.players[i].id,
                     username |-> room.players[i].username,
                     connected |-> room.players[i].connected]],
     started |-> room.started, locked |-> room.locked,
     revision |-> room.revision,
     state |-> IF Truthy(room.state) THEN JSONcopy(room.state) ELSE "null",
     youAreHost |-> room.hostId = requesterId]

\* What a handler segment leaves: the store, and the response if it sent one
\* (code 0: the handler is at its await and has sent nothing yet).
Out(d, code) == [db |-> d, code |-> code, room |-> <<>>, revision |-> -1]

\* save() and the response after it (lines 109-110 and alike): when the write
\* throws, the catch block of line 177 answers 500 and the store stays as it
\* was changed.
\* A failed save() that puts the store back as it was.
SavedOrRolledBack(d, ok, body) == IF ok THEN body ELSE Out(db, 500)

Saved(d, ok, body) == IF ok THEN body ELSE Out(d, 500)

WithRoom(d, roomId, requesterId) ==
    [Out(d, 200) EXCEPT !.room = <<sanitizeRoom(d.rooms[roomId], requesterId)>>]

\* DB_FILE after a segment with outcome r: a segment that got as far as save()
\* answers 200 or 500, and then the file is current if the write went through,
\* or if it was current and the segment changed nothing.
Written(r, ok) ==
    IF r.code \in {200, 500} THEN ok \/ (diskCurrent /\ r.db = db) ELSE diskCurrent

TypeOK ==
    /\ DOMAIN db = {"users", "sessions", "rooms", "history"}
    /\ Len(db.users) <= Cardinality(UserIds)
    /\ DOMAIN db.rooms \subseteq RoomIds
    /\ IsABag(inflight)
    /\ BagCardinality(inflight) <= MaxInFlight
    /\ diskCurrent \in BOOLEAN

Init ==
    /\ db = loadedDb
    /\ diskCurrent = TRUE
    /\ inflight = EmptyBag
    /\ accepted = [r \in RoomIds |-> 0]
    /\ starts = [r \in RoomIds |-> 0]
    /\ reports = [r \in RoomIds |-> 0]

\* ------------------------------------------------------------ requests
\* A request parked at its `await readBody(req)`: the handler, the user it
\* authenticated and the room it looked up.
Request(op, user, roomId) == [op |-> op, user |-> user, roomId |-> roomId]

Park(req) == inflight (+) SetToBag({req})
Resume(req) == inflight (-) SetToBag({req})

\* Requests parked on a room that will bump its revision when they resume.
Parked(roomId) ==
    BagCardinality([req \in {q \in BagToSet(inflight) :
                                q.op \in {"start", "state"} /\ q.roomId = roomId}
                      |-> inflight[req]])

Creating ==
    BagCardinality([req \in {q \in BagToSet(inflight) : q.op = "create"} |-> inflight[req]])

\* POST /api/register, after its body is read (lines 55-63).
RegisterHandler(d, username, ok) ==
    IF \E i \in 1..Len(d.users) : ToLowerCase(d.users[i].username) = ToLowerCase(username)
    THEN Out(d, 400)
    ELSE LET id == Len(d.users) + 1
             d2 == [d EXCEPT !.users = Append(@, NewUser(id, username)),
                             !.sessions = [t \in DOMAIN @ \cup {id} |->
                                             IF t = id THEN id ELSE @[t]]]
         IN Saved(d2, ok, Out(d2, 200))

Register(username, ok) ==
    /\ Len(db.users) < Cardinality(UserIds)
    /\ LET r == RegisterHandler(db, username, ok)
       IN /\ db' = r.db
          /\ diskCurrent' = Written(r, ok)
    /\ UNCHANGED <<inflight, accepted, starts, reports>>

\* A bump that is lost: the revision is written back as it was read.
BumpRevisionLost(room) == [room EXCEPT !.revision = @]

\* The source's `room.revision += 1`.
BumpRevision(room) == [room EXCEPT !.revision = @ + 1]

\* The clamp of line 88: Math.max(2, Math.min(4, Number(maxPlayers || 4))).
ClampMaxPlayers(maxPlayers) ==
    MathMax(Num(2), MathMin(Num(4), Number(IF Truthy(maxPlayers) THEN maxPlayers ELSE "4")))

\* The room object built on line 89.
NewRoom(id, user, max) ==
    [id |-> id, hostId |-> user.id,
     players |-> <<[id |-> user.id, username |-> user.username, connected |-> TRUE]>>,
     maxPlayers |-> max, started |-> FALSE, locked |-> FALSE,
     state |-> "null", revision |-> 0]

\* POST /api/rooms up to `await readBody(req)` (lines 85-86): 0 to go on.
CreateCheck(d, token) == IF authUser(d, token) = 0 THEN 401 ELSE 0

\* POST /api/rooms from the body on (lines 87-92), for the user authenticated
\* before the await and the room id drawn by randomUUID.
CreateResume(d, userId, id, text, ok) ==
    LET user == d.users[FindUser(d.users, userId)]
        room == NewRoom(id, user, ClampMaxPlayers(JSONparse(text)))
        d2 == [d EXCEPT !.rooms = [r \in DOMAIN @ \cup {id} |->
                                     IF r = id THEN room ELSE @[r]]]
    IN Saved(d2, ok, WithRoom(d2, id, user.id))

CreateBegin(token) ==
    /\ CreateCheck(db, token) = 0
    /\ BagCardinality(inflight) < MaxInFlight
    /\ Cardinality(DOMAIN db.rooms) + Creating < Cardinality(RoomIds)
    /\ inflight' = Park(Request("create", authUser(db, token), 0))
    /\ UNCHANGED <<db, diskCurrent, accepted, starts, reports>>

CreateEnd(req, text, ok) ==
    /\ req.op = "create"
    /\ LET r == CreateResume(db, req.user, Cardinality(DOMAIN db.rooms) + 1, text, ok)
       IN /\ db' = r.db
          /\ diskCurrent' = Written(r, ok)
    /\ inflight' = Resume(req)
    /\ UNCHANGED <<accepted, starts, reports>>

\* A join that seats the caller without looking for the caller's seat.
JoinRoomAgain(room, user) ==
    [room EXCEPT !.players = Append(@, [id |-> user.id, username |-> user.username,
                                        connected |-> TRUE]),
                 !.revision = @ + 1]

\* Lines 102-108: the seat is added unless the user has one, and marked.
JoinRoom(room, user) ==
    LET i == FindSeat(room.players, user.id)
        seat == [id |-> user.id, username |-> user.username, connected |-> TRUE]
        players == IF i = 0 THEN Append(room.players, seat) ELSE room.players
        j == IF i = 0 THEN Len(players) ELSE i
    IN BumpRevision([room EXCEPT !.players = [players EXCEPT ![j].connected = TRUE]])

\* The refusal with the seat count compared by > instead of >=.
RoomFullOffByOne(room) ==
    room.started \/ (~room.maxPlayers.nan /\ Len(room.players) > room.maxPlayers.n)

\* The refusal of line 103: room.started || room.players.length >= room.maxPlayers.
RoomFull(room) == room.started \/ GreaterOrEqual(Len(room.players), room.maxPlayers)

\* A join that seats the caller before it looks whether the room is full.
JoinHandlerSeatsFirst(d, token, roomId, ok) ==
    IF authUser(d, token) = 0 THEN Out(d, 401)
    ELSE IF roomId \notin DOMAIN d.rooms THEN Out(d, 404)
    ELSE LET room == d.rooms[roomId]
             user == d.users[FindUser(d.users, authUser(d, token))]
             d2 == [d EXCEPT !.rooms[roomId] = JoinRoom(room, user)]
         IN IF FindSeat(room.players, user.id) = 0 /\ RoomFull(room) THEN Out(d2, 400)
            ELSE Saved(d2, ok, WithRoom(d2, roomId, user.id))

\* POST /api/rooms/:id/join (lines 96-110): the handler has no await.
JoinHandler(d, token, roomId, ok) ==
    IF authUser(d, token) = 0 THEN Out(d, 401)
    ELSE IF roomId \notin DOMAIN d.rooms THEN Out(d, 404)
    ELSE LET room == d.rooms[roomId]
             user == d.users[FindUser(d.users, authUser(d, token))]
         IN IF FindSeat(room.players, user.id) = 0 /\ RoomFull(room) THEN Out(d, 400)
            ELSE LET d2 == [d EXCEPT !.rooms[roomId] = JoinRoom(room, user)]
                 IN Saved(d2, ok, WithRoom(d2, roomId, user.id))

\* A handler's outcome is a mutation of the room when it got past its checks.
Mutates(r) == r.code \in {200, 500}

\* The model stops accepting mutations of a room at revision cap.
Below(cap, roomId, parked) == db.rooms[roomId].revision + parked < cap

Join(cap, token, roomId, ok) ==
    LET r == JoinHandler(db, token, roomId, ok)
    IN /\ Mutates(r) => Below(cap, roomId, Parked(roomId))
       /\ db' = r.db
       /\ diskCurrent' = Written(r, ok)
       /\ accepted' = IF Mutates(r) THEN [accepted EXCEPT ![roomId] = @ + 1] ELSE accepted
       /\ UNCHANGED <<inflight, starts, reports>>

\* The checks of a start without the host check of line 119.
StartCheckAnyone(d, token, roomId) ==
    IF authUser(d, token) = 0 THEN 401
    ELSE IF roomId \notin DOMAIN d.rooms THEN 404
    ELSE IF Len(d.rooms[roomId].players) < 2 \/ Len(d.rooms[roomId].players) > 4 THEN 400
    ELSE 0

\* POST /api/rooms/:id/start up to `await readBody(req)` (lines 114-120):
\* the refusal, or 0 to go on.
StartCheck(d, token, roomId) ==
    IF authUser(d, token) = 0 THEN 401
    ELSE IF roomId \notin DOMAIN d.rooms THEN 404
    ELSE IF d.rooms[roomId].hostId # authUser(d, token) THEN 403
    ELSE IF Len(d.rooms[roomId].players) < 2 \/ Len(d.rooms[roomId].players) > 4 THEN 400
    ELSE 0

\* Lines 122-124: the mutation of a start.
StartRoom(room, state) ==
    BumpRevision([room EXCEPT !.started = TRUE,
                              !.state = IF Truthy(state) THEN state ELSE "null"])

\* POST /api/rooms/:id/start from the body on (lines 121-126).
StartResume(d, req, text, ok) ==
    LET d2 == [d EXCEPT !.rooms[req.roomId] = StartRoom(@, JSONparse(text))]
    IN Saved(d2, ok, WithRoom(d2, req.roomId, req.user))

StartBegin(cap, token, roomId) ==
    /\ StartCheck(db, token, roomId) = 0
    /\ BagCardinality(inflight) < MaxInFlight
    /\ Below(cap, roomId, Parked(roomId))
    /\ inflight' = Park(Request("start", authUser(db, token), roomId))
    /\ UNCHANGED <<db, diskCurrent, accepted, starts, reports>>

StartEnd(req, text, ok) ==
    /\ req.op = "start"
    /\ LET r == StartResume(db, req, text, ok)
       IN /\ db' = r.db
          /\ diskCurrent' = Written(r, ok)
    /\ inflight' = Resume(req)
    /\ accepted' = [accepted EXCEPT ![req.roomId] = @ + 1]
    /\ starts' = [starts EXCEPT ![req.roomId] = @ + 1]
    /\ UNCHANGED reports

\* ------------------------------------------------------ stats aggregation
\* Lines 148-152: the inner forEach over the other players' usernames.
RECURSIVE BumpVs(_, _, _)
BumpVs(vs, names, won) ==
    IF names = <<>> THEN vs
    ELSE LET k == Head(names)
             cur == IF k \in DOMAIN vs THEN vs[k] ELSE [wins |-> 0, losses |-> 0]
             new == IF won THEN [cur EXCEPT !.wins = @ + 1]
                    ELSE [cur EXCEPT !.losses = @ + 1]
         IN BumpVs([x \in DOMAIN vs \cup {k} |-> IF x = k THEN new ELSE vs[x]],
                   Tail(names), won)

\* The opponents of a 1v1 game: the first other player alone.
OpponentsOneOnOne(players, id) ==
    LET keep == SelectSeq(players, LAMBDA op : op.id # id)
    IN IF keep = <<>> THEN <<>> ELSE <<keep[1].username>>

\* room.players.filter(op => op.id !== p.id), as usernames (line 148).
Opponents(players, id) ==
    LET keep == SelectSeq(players, LAMBDA op : op.id # id)
    IN [i \in 1..Len(keep) |-> keep[i].username]

\* ensureStats: a user made by register has stats already.
ensureStats(user) == user.stats

\* A count of the winner alone.
CountResultOfWinner(stats, won) ==
    IF won THEN [stats EXCEPT !.wins = @ + 1] ELSE stats

\* Line 147: the player's own counter.
CountResult(stats, won) ==
    IF won THEN [stats EXCEPT !.wins = @ + 1] ELSE [stats EXCEPT !.losses = @ + 1]

\* Lines 144-152: the body of the outer forEach for the player p.
RecordPlayer(users, players, p, winnerId) ==
    LET i == FindUser(users, p.id)
    IN IF i = 0 THEN users
       ELSE [users EXCEPT ![i].stats =
               [CountResult(ensureStats(users[i]), p.id = winnerId) EXCEPT
                  !.vs = BumpVs(@, Opponents(players, p.id), p.id = winnerId)]]

\* Lines 143-153: room.players.forEach, from seat k on.
RECURSIVE RecordMatch(_, _, _, _)
RecordMatch(users, players, k, winnerId) ==
    IF k > Len(players) THEN users
    ELSE RecordMatch(RecordPlayer(users, players, players[k], winnerId),
                     players, k + 1, winnerId)

\* Line 154: the entry pushed on db.history.
HistoryEntry(room, winner) ==
    [roomId |-> room.id,
     players |-> [i \in 1..Len(room.players) |-> room.players[i].username],
     winner |-> winner.username]

\* A conclusion that leaves the room started.
EndMatchLater(room) == room

\* Line 155.
EndMatch(room) == [room EXCEPT !.started = FALSE]

\* The test of the report without `&& room.started`.
ConcludesAnyTime(room, reportWinnerId) ==
    reportWinnerId # NoWinner /\ FindSeat(room.players, reportWinnerId) # 0

\* Lines 140-142: whether the report is acted on.
Concludes(room, reportWinnerId) ==
    reportWinnerId # NoWinner /\ room.started /\ FindSeat(room.players, reportWinnerId) # 0

\* Lines 140-157: the winner report, applied to the store after lines 137-138.
ReportWinner(d, roomId, reportWinnerId) ==
    LET room == d.rooms[roomId]
        winner == room.players[FindSeat(room.players, reportWinnerId)]
    IN IF Concludes(room, reportWinnerId)
       THEN [d EXCEPT !.users = RecordMatch(@, room.players, 1, winner.id),
                      !.history = Append(@, HistoryEntry(room, winner)),
                      !.rooms[roomId] = EndMatch(room)]
       ELSE d

\* A state update that ends the match whatever the body says.
SetStateEndsMatch(room, state) ==
    [room EXCEPT !.state = state, !.started = FALSE, !.revision = @ + 1]

\* Lines 137-138.
SetState(room, state) == BumpRevision([room EXCEPT !.state = state])

\* POST /api/rooms/:id/state up to `await readBody(req)` (lines 130-135):
\* the refusal, or 0 to go on.
StateCheck(d, token, roomId) ==
    IF authUser(d, token) = 0 THEN 401
    ELSE IF roomId \notin DOMAIN d.rooms THEN 404
    ELSE IF FindSeat(d.rooms[roomId].players, authUser(d, token)) = 0 THEN 403
    ELSE 0

\* POST /api/rooms/:id/state from the body on (lines 136-160).
StateResume(d, req, text, reportWinnerId, ok) ==
    LET set == [d EXCEPT !.rooms[req.roomId] = SetState(@, JSONparse(text))]
        d2 == ReportWinner(set, req.roomId, reportWinnerId)
    IN Saved(d2, ok, [Out(d2, 200) EXCEPT !.revision = d2.rooms[req.roomId].revision])

StateBegin(cap, token, roomId) ==
    /\ StateCheck(db, token, roomId) = 0
    /\ BagCardinality(inflight) < MaxInFlight
    /\ Below(cap, roomId, Parked(roomId))
    /\ inflight' = Park(Request("state", authUser(db, token), roomId))
    /\ UNCHANGED <<db, diskCurrent, accepted, starts, reports>>

StateEnd(req, text, reportWinnerId, ok) ==
    /\ req.op = "state"
    /\ LET r == StateResume(db, req, text, reportWinnerId, ok)
       IN /\ db' = r.db
          /\ diskCurrent' = Written(r, ok)
    /\ inflight' = Resume(req)
    /\ accepted' = [accepted EXCEPT ![req.roomId] = @ + 1]
    /\ reports' = IF FindSeat(db.rooms[req.roomId].players, reportWinnerId) # 0
                  THEN [reports EXCEPT ![req.roomId] = @ + 1] ELSE reports
    /\ UNCHANGED starts

\* A read that counts as a mutation of the room.
TouchSeatBumps(room, userId) ==
    [room EXCEPT !.revision = @ + 1]

\* Lines 169-170 of GET /api/rooms/:id.
TouchSeat(room, userId) ==
    LET i == FindSeat(room.players, userId)
    IN IF i = 0 THEN room ELSE [room EXCEPT !.players[i].connected = TRUE]

\* GET /api/rooms/:id (lines 164-172): the handler has no await.
ReadHandler(d, token, roomId, ok) ==
    IF authUser(d, token) = 0 THEN Out(d, 401)
    ELSE IF roomId \notin DOMAIN d.rooms THEN Out(d, 404)
    ELSE LET d2 == [d EXCEPT !.rooms[roomId] = TouchSeat(@, authUser(d, token))]
         IN Saved(d2, ok, WithRoom(d2, roomId, authUser(d, token)))

Read(token, roomId, ok) ==
    LET r == ReadHandler(db, token, roomId, ok)
    IN /\ db' = r.db
       /\ diskCurrent' = Written(r, ok)
       /\ UNCHANGED <<inflight, accepted, starts, reports>>

\* readBody throws (the body is no JSON, or is the JSON null): the catch
\* block of line 176 answers 500 and the handler ends there.
BodyError(req) ==
    /\ inflight' = Resume(req)
    /\ UNCHANGED <<db, diskCurrent, accepted, starts, reports>>

Tokens == {NoToken} \cup UserIds
Targets == RoomIds \cup {UnknownRoom}
Winners == {NoWinner} \cup UserIds

Next ==
    \/ \E username \in Usernames, ok \in BOOLEAN : Register(username, ok)
    \/ \E token \in Tokens : CreateBegin(token)
    \/ \E req \in BagToSet(inflight), text \in MaxPlayersTexts, ok \in BOOLEAN :
          CreateEnd(req, text, ok)
    \/ \E token \in Tokens, roomId \in Targets, ok \in BOOLEAN : Join(MaxRevision, token, roomId, ok)
    \/ \E token \in Tokens, roomId \in Targets : StartBegin(MaxRevision, token, roomId)
    \/ \E req \in BagToSet(inflight), text \in StateTexts, ok \in BOOLEAN :
          StartEnd(req, text, ok)
    \/ \E token \in Tokens, roomId \in Targets : StateBegin(MaxRevision, token, roomId)
    \/ \E req \in BagToSet(inflight), text \in StateTexts, w \in Winners, ok \in BOOLEAN :
          StateEnd(req, text, w, ok)
    \/ \E token \in Tokens, roomId \in Targets, ok \in BOOLEAN : Read(token, roomId, ok)
    \/ \E req \in BagToSet(inflight) : BodyError(req)

Spec == Init /\ [][Next]_vars

\* A server started on a DB_FILE with five registered users, all logged in,
\* taking creates, joins and starts only, with save() always succeeding.
CrowdIds == {1, 2, 3, 4, 5}

crowdDb ==
    [defaultDb EXCEPT !.users = <<NewUser(1, "Ann"), NewUser(2, "Bob"), NewUser(3, "Cy"),
                                  NewUser(4, "Dee"), NewUser(5, "Eve")>>,
                      !.sessions = <<1, 2, 3, 4, 5>>]

CrowdTexts == {"4", "\"abc\""}

InitCrowd ==
    /\ db = crowdDb
    /\ diskCurrent = TRUE
    /\ inflight = EmptyBag
    /\ accepted = [r \in RoomIds |-> 0]
    /\ starts = [r \in RoomIds |-> 0]
    /\ reports = [r \in RoomIds |-> 0]

NextCrowd ==
    \/ \E token \in CrowdIds : CreateBegin(token)
    \/ \E req \in BagToSet(inflight), text \in CrowdTexts : CreateEnd(req, text, TRUE)
    \/ \E token \in CrowdIds, roomId \in RoomIds :
          Join(MaxCrowdRevision, token, roomId, TRUE)
    \/ \E token \in CrowdIds, roomId \in RoomIds :
          StartBegin(MaxCrowdRevision, token, roomId)
    \/ \E req \in BagToSet(inflight) : StartEnd(req, "{}", TRUE)

SpecCrowd == InitCrowd /\ [][NextCrowd]_vars

\* ------------------------------------------------------------------ claims
Rooms == DOMAIN db.rooms

\* The registered users' tokens: the callers authUser accepts.
Callers == {t \in Tokens : authUser(db, t) # 0}

Seated(room, userId) == \E i \in 1..Len(room.players) : room.players[i].id = userId

ParkedOn(op) == {req \in BagToSet(inflight) : req.op = op}

\* C1: a room's revision starts at 0, grows by exactly 1 with every accepted
\* join, start and state update and with nothing else, and never decreases:
\* it always equals the number of mutations applied to the room, however the
\* requests interleave.  (A mutation whose save() throws is applied too.)
RevisionCountsMutations ==
    /\ [](\A r \in Rooms : db.rooms[r].revision = accepted[r])
    /\ [][\A r \in Rooms :
            /\ r \in DOMAIN db'.rooms
            /\ db'.rooms[r].revision \in {db.rooms[r].revision, db.rooms[r].revision + 1}
            /\ db'.rooms[r].revision = db.rooms[r].revision + 1
                  <=> accepted'[r] = accepted[r] + 1]_vars
    /\ [][\A r \in DOMAIN db'.rooms \ Rooms : db'.rooms[r].revision = 0]_vars

\* Three mutations were applied to a room while another request on it is
\* still at its await.
RevisionWitness ==
    \E r \in Rooms : db.rooms[r].revision = 3 /\ db.rooms[r].started /\ Parked(r) >= 1

\* C2: no two seats of a room hold the same user; a join by a seated user
\* succeeds and changes nothing of the room but that seat's connected flag,
\* set to true, and the revision, bumped by one.
NoDuplicateSeats ==
    \A r \in Rooms :
       LET room == db.rooms[r]
       IN /\ \A i, j \in 1..Len(room.players) :
                room.players[i].id = room.players[j].id => i = j
          /\ \A t \in Callers, ok \in BOOLEAN :
                Seated(room, authUser(db, t)) =>
                   LET out == JoinHandler(db, t, r, ok)
                       i == CHOOSE k \in 1..Len(room.players) :
                               room.players[k].id = authUser(db, t)
                   IN /\ out.code = IF ok THEN 200 ELSE 500
                      /\ out.db = [db EXCEPT !.rooms[r] =
                                     [room EXCEPT !.players[i].connected = TRUE,
                                                  !.revision = @ + 1]]
                      /\ Len(out.db.rooms[r].players) = Len(room.players)

\* Only joins have touched the room, and more of them than there are seats to
\* add: one of them was a join by a seated user.
ReconnectWitness ==
    \E r \in Rooms :
       /\ starts[r] = 0 /\ db.rooms[r].state = "null"
       /\ Len(db.rooms[r].players) = 2
       /\ db.rooms[r].revision = 2

\* A room whose maxPlayers is a number from 2 to 4.
MaxInRange(room) == ~room.maxPlayers.nan /\ room.maxPlayers.n \in 2..4

Full(room) == room.started \/ Len(room.players) >= room.maxPlayers.n

\* C3, as claimed: on a room with maxPlayers in 2..4, a join by any
\* authenticated caller is refused with 400 exactly if the room is started or
\* holds maxPlayers seats.
JoinRefusedIffFull ==
    \A r \in Rooms, t \in Callers :
       MaxInRange(db.rooms[r]) =>
          (JoinHandler(db, t, r, TRUE).code = 400 <=> Full(db.rooms[r]))

\* C3, amended: the same for every authenticated caller who has no seat in the
\* room; a caller who has one is never refused.
JoinRefusedIffFullAndNotSeated ==
    \A r \in Rooms, t \in Callers, ok \in BOOLEAN :
       MaxInRange(db.rooms[r]) =>
          /\ ~Seated(db.rooms[r], authUser(db, t)) =>
                (JoinHandler(db, t, r, ok).code = 400 <=> Full(db.rooms[r]))
          /\ Seated(db.rooms[r], authUser(db, t)) => JoinHandler(db, t, r, ok).code # 400

\* A room that holds all its seats without being started, and a registered
\* user without a seat, whose join is refused.
JoinRefusedWitness ==
    \E r \in Rooms, t \in Callers :
       /\ MaxInRange(db.rooms[r]) /\ ~db.rooms[r].started
       /\ ~Seated(db.rooms[r], authUser(db, t))
       /\ JoinHandler(db, t, r, TRUE).code = 400

PlayerCountOk(room) == 2 <= Len(room.players) /\ Len(room.players) <= 4

\* C4: a start by an authenticated caller on an existing room gets past its
\* checks exactly if the caller is the host and the room holds 2 to 4 seats;
\* else it is refused, with 403 for a caller who is not the host and with 400
\* for the host; a start past its checks is applied and answers 200 (500 if
\* save() throws).
StartIffHostAndCount ==
    /\ \A r \in Rooms, t \in Callers :
          LET room == db.rooms[r]
              code == StartCheck(db, t, r)
          IN /\ code = 0 <=> (authUser(db, t) = room.hostId /\ PlayerCountOk(room))
             /\ authUser(db, t) # room.hostId => code = 403
             /\ (authUser(db, t) = room.hostId /\ ~PlayerCountOk(room)) => code = 400
    /\ \A req \in ParkedOn("start"), text \in StateTexts, ok \in BOOLEAN :
          LET out == StartResume(db, req, text, ok)
          IN /\ out.code = IF ok THEN 200 ELSE 500
             /\ out.db.rooms[req.roomId].started
             /\ req.user = db.rooms[req.roomId].hostId

\* A started room, whose host is alone no more, and a registered user who is
\* not its host.
StartWitness ==
    \E r \in Rooms, t \in Callers :
       /\ db.rooms[r].started /\ starts[r] = 1
       /\ StartCheck(db, t, r) = 403

SeatedIds(room) == {room.players[i].id : i \in 1..Len(room.players)}

NameOf(userId) == db.users[FindUser(db.users, userId)].username

\* The names of the seated players other than userId.
OthersOf(room, userId) == {NameOf(o) : o \in SeatedIds(room) \ {userId}}

\* A counter of a user's vs map; a key that is absent counts as 0.
VsCount(user, name, field) ==
    IF name \in DOMAIN user.stats.vs THEN user.stats.vs[name][field] ELSE 0

One(cond) == IF cond THEN 1 ELSE 0

Names == {db.users[i].username : i \in 1..Len(db.users)} \cup Usernames

\* C5: a state update that names a seated winner w on a started room adds 1 to
\* w's wins, 1 to every other seated player's losses, 1 to w.vs[op].wins for
\* every other seated player op and 1 to p.vs[op].losses for every seated
\* loser p and every other seated player op; it changes no other counter of
\* any user, and it leaves the room not started.
WinnerReportCounts ==
    \A req \in ParkedOn("state"), text \in StateTexts, w \in UserIds, ok \in BOOLEAN :
       LET room == db.rooms[req.roomId]
           out == StateResume(db, req, text, w, ok).db
           losers == SeatedIds(room) \ {w}
       IN (room.started /\ Seated(room, w)) =>
             /\ ~out.rooms[req.roomId].started
             /\ Len(out.users) = Len(db.users)
             /\ \A i \in 1..Len(db.users) :
                   LET u == db.users[i]
                       v == out.users[i]
                   IN /\ v.id = u.id /\ v.username = u.username
                      /\ v.stats.wins = u.stats.wins + One(u.id = w)
                      /\ v.stats.losses = u.stats.losses + One(u.id \in losers)
                      /\ \A n \in Names :
                            /\ VsCount(v, n, "wins") = VsCount(u, n, "wins")
                                  + One(u.id = w /\ n \in OthersOf(room, w))
                            /\ VsCount(v, n, "losses") = VsCount(u, n, "losses")
                                  + One(u.id \in losers /\ n \in OthersOf(room, u.id))
                      /\ DOMAIN v.stats.vs \subseteq Names

\* A match of three players was concluded.
ThreePlayerMatchWitness ==
    \E k \in 1..Len(db.history) :
       /\ Len(db.history[k].players) = 3
       /\ \E i \in 1..Len(db.users) :
             /\ db.users[i].username = db.history[k].winner
             /\ db.users[i].stats.wins = 1
             /\ Cardinality(DOMAIN db.users[i].stats.vs) = 2

\* The users' stats, by position in db.users.
StatsOf(d) == [i \in 1..Len(d.users) |-> d.users[i].stats]

\* C6: a state update that names a seated winner appends exactly one history
\* entry if the room is started, and appends none and changes no user's stats
\* if the room is not started (a replayed report, sequential or concurrent);
\* nothing else appends an entry, and entries are never changed or removed.
HistoryOncePerReport ==
    /\ [](\A req \in ParkedOn("state"), text \in StateTexts, w \in Winners, ok \in BOOLEAN :
            LET room == db.rooms[req.roomId]
                out == StateResume(db, req, text, w, ok).db
            IN IF w # NoWinner /\ Seated(room, w) /\ room.started
               THEN out.history = Append(db.history,
                                         [roomId |-> req.roomId,
                                          players |-> [i \in 1..Len(room.players) |->
                                                         NameOf(room.players[i].id)],
                                          winner |-> NameOf(w)])
               ELSE out.history = db.history /\ out.users = db.users)
    /\ [][/\ Len(db'.history) \in {Len(db.history), Len(db.history) + 1}
          /\ SubSeq(db'.history, 1, Len(db.history)) = db.history
          /\ db'.history # db.history =>
                \E r \in Rooms : reports'[r] = reports[r] + 1 /\ db.rooms[r].started
          /\ \A r \in Rooms :
                reports'[r] = reports[r] + 1 =>
                   IF db.rooms[r].started
                   THEN Len(db'.history) = Len(db.history) + 1
                   ELSE db'.history = db.history /\ db'.users = db.users]_vars

\* A second report that named a seated winner came after the only start of
\* the room was concluded, and there is one entry.
ReplayWitness ==
    \E r \in Rooms : reports[r] = 2 /\ starts[r] = 1 /\ Len(db.history) = 1

\* What a JSON payload reads as after a round trip; an absent payload and
\* null are both null-like.
SameJSON(sent, got) == got = sent \/ (sent \in {"undefined", "null"} /\ got = "null")

\* C7, as claimed: after a state update with any payload, a read of the room
\* returns a state structurally equal to the payload.
StateRoundTrip ==
    \A req \in ParkedOn("state"), text \in StateTexts, t \in Callers :
       LET out == StateResume(db, req, text, NoWinner, TRUE).db
           view == ReadHandler(out, t, req.roomId, TRUE).room[1]
       IN SameJSON(text, view.state)

\* C8, as claimed: the room made by a create has its maxPlayers in 2..4, the
\* requested number clamped (2 for a number below 2, 4 for one above 4), one
\* seat, the host's, connected, and is not started, without state, at
\* revision 0.
CreateClamps ==
    \A req \in ParkedOn("create"), text \in MaxPlayersTexts :
       LET id == Cardinality(DOMAIN db.rooms) + 1
           room == CreateResume(db, req.user, id, text, TRUE).db.rooms[id]
       IN /\ MaxInRange(room)
          /\ text \in {"0", "1"} => room.maxPlayers.n = 2
          /\ text = "5" => room.maxPlayers.n = 4
          /\ text \in {"2", "3", "4"} => room.maxPlayers = Number(text)
          /\ room.hostId = req.user
          /\ Len(room.players) = 1
          /\ room.players[1].id = req.user /\ room.players[1].connected
          /\ ~room.started /\ room.state = "null" /\ room.revision = 0

\* C9, as claimed: while a request is between its checks and its mutation of
\* a room, no other request's mutation of that room takes effect.
Serialized ==
    [][\A req \in ParkedOn("start") \cup ParkedOn("state") :
          CopiesIn(req, inflight') >= CopiesIn(req, inflight) =>
             db'.rooms[req.roomId] = db.rooms[req.roomId]]_vars

EntriesOf(history, r) ==
    Cardinality({k \in 1..Len(history) : history[k].roomId = r})

\* C10: in every step, so in every state another request can see, a room
\* goes from started to not started exactly if a history entry of that room
\* is appended, and the users' stats change exactly if the history does: the
\* stats, the entry and started=false come in one uninterrupted step.
ConclusionIsAtomic ==
    [][/\ \A r \in Rooms :
             (db.rooms[r].started /\ ~db'.rooms[r].started)
                <=> EntriesOf(db'.history, r) = EntriesOf(db.history, r) + 1
       /\ SubSeq(StatsOf(db'), 1, Len(db.users)) # StatsOf(db)
             <=> db'.history # db.history]_vars

\* A match was concluded while another request on the room was at its await,
\* and that request is still to resume.
ConclusionSeenWitness ==
    \E r \in Rooms :
       /\ EntriesOf(db.history, r) = 1 /\ ~db.rooms[r].started
       /\ Parked(r) = 1 /\ db.rooms[r].revision = 3

\* C11: a room goes from not started to started only in the step that resumes
\* a start of its host, and from started to not started only in the step that
\* resumes a state update of a seated player that names a seated winner; a
\* state update whose winner id is absent or not seated leaves started as it
\* is; a room stays in the registry.
StartedChangesByStartAndReport ==
    /\ [](\A req \in ParkedOn("state"), text \in StateTexts, w \in Winners, ok \in BOOLEAN :
            LET room == db.rooms[req.roomId]
            IN (w = NoWinner \/ ~Seated(room, w)) =>
                  StateResume(db, req, text, w, ok).db.rooms[req.roomId].started
                     = room.started)
    /\ [][\A r \in Rooms :
            /\ r \in DOMAIN db'.rooms
            /\ (~db.rooms[r].started /\ db'.rooms[r].started) =>
                  \E req \in ParkedOn("start") :
                     /\ inflight' = Resume(req) /\ req.roomId = r
                     /\ req.user = db.rooms[r].hostId
                     /\ starts'[r] = starts[r] + 1
            /\ (db.rooms[r].started /\ ~db'.rooms[r].started) =>
                  \E req \in ParkedOn("state") :
                     /\ inflight' = Resume(req) /\ req.roomId = r
                     /\ Seated(db.rooms[r], req.user)
                     /\ reports'[r] = reports[r] + 1]_vars

\* A room was started, took a state update without a seated winner and stayed
\* started, and was ended by a report.
StartedCycleWitness ==
    \E r \in Rooms :
       /\ starts[r] = 1 /\ reports[r] = 1 /\ EntriesOf(db.history, r) = 1
       /\ ~db.rooms[r].started
       /\ Len(db.rooms[r].players) = 2 /\ db.rooms[r].revision = 4

\* C12: a state update that names a winner on a room that is not started
\* replaces the room's state by the state of the body and bumps the revision
\* by one, and changes nothing else: not started, no user's stats, not the
\* history.
ReportOnOpenRoom ==
    \A req \in ParkedOn("state"), text \in StateTexts, w \in UserIds, ok \in BOOLEAN :
       LET room == db.rooms[req.roomId]
       IN ~room.started =>
             StateResume(db, req, text, w, ok).db
                = [db EXCEPT !.rooms[req.roomId] =
                     [room EXCEPT !.state = JSONparse(text), !.revision = @ + 1]]

\* A report that named a seated winner was applied to a room that was never
\* started.
ReportOnOpenWitness ==
    \E r \in Rooms :
       /\ reports[r] = 1 /\ starts[r] = 0
       /\ db.history = <<>> /\ db.rooms[r].state # "null"

\* The state a start's body supplies: null when it supplies none.
Supplied(text) == IF text = "undefined" THEN "null" ELSE JSONparse(text)

\* C13, as claimed: a start past its checks sets started, sets the room's
\* state to exactly the state of the body (null when the body has none) and
\* bumps the revision by one, and leaves players, hostId and maxPlayers as
\* they are; a start of a started room does the same.
StartSetsSuppliedState ==
    \A req \in ParkedOn("start"), text \in StateTexts, ok \in BOOLEAN :
       LET room == db.rooms[req.roomId]
       IN StartResume(db, req, text, ok).db
             = [db EXCEPT !.rooms[req.roomId] =
                  [room EXCEPT !.started = TRUE, !.state = Supplied(text),
                               !.revision = @ + 1]]

\* A seat with its connected flag cleared, and a store with every flag cleared.
Unmarked(d) ==
    [d EXCEPT !.rooms = [r \in DOMAIN d.rooms |->
        [d.rooms[r] EXCEPT !.players = [i \in 1..Len(d.rooms[r].players) |->
            [d.rooms[r].players[i] EXCEPT !.connected = FALSE]]]]]

\* The store d after a read of room roomId by the user of token, as claimed.
AfterRead(d, token, roomId) ==
    LET userId == authUser(d, token)
    IN IF userId = 0 \/ roomId \notin DOMAIN d.rooms THEN d
       ELSE LET i == FindSeat(d.rooms[roomId].players, userId)
            IN IF i = 0 THEN d
               ELSE [d EXCEPT !.rooms[roomId].players[i].connected = TRUE]

\* C14: a read changes nothing but the connected flag of the caller's own
\* seat, which it sets; the read of a caller without a seat changes nothing.
\* Checked on the store as it is (where every flag is set already) and on the
\* same store with the flags cleared.
ReadTouchesOwnSeatOnly ==
    \A t \in Tokens, r \in Targets, ok \in BOOLEAN :
       /\ ReadHandler(db, t, r, ok).db = AfterRead(db, t, r)
       /\ ReadHandler(db, t, r, ok).db = db
       /\ ReadHandler(Unmarked(db), t, r, ok).db = AfterRead(Unmarked(db), t, r)

\* A started room with a state and a history entry is read by a seated player
\* and by a registered user without a seat.
ReadWitness ==
    \E r \in Rooms, t, u \in Callers :
       /\ Seated(db.rooms[r], t) /\ ~Seated(db.rooms[r], u)
       /\ db.rooms[r].started /\ db.rooms[r].state # "null" /\ db.history # <<>>
       /\ ReadHandler(db, t, r, TRUE).code = 200
       /\ ReadHandler(db, u, r, TRUE).code = 200

\* The ids of the seats of a room, in seat order.
SeatIds(room) == [i \in 1..Len(room.players) |-> room.players[i].id]

\* C15, as claimed: a room has at least one seat, at most maxPlayers seats and
\* at most 4; its maxPlayers and hostId never change; seats are only appended.
SeatsWithinMaxPlayers ==
    /\ [](\A r \in Rooms :
            LET room == db.rooms[r]
            IN /\ Len(room.players) >= 1
               /\ ~room.maxPlayers.nan /\ Len(room.players) <= room.maxPlayers.n
               /\ Len(room.players) <= 4)
    /\ [][\A r \in Rooms :
            /\ db'.rooms[r].maxPlayers = db.rooms[r].maxPlayers
            /\ db'.rooms[r].hostId = db.rooms[r].hostId
            /\ Len(db'.rooms[r].players) >= Len(db.rooms[r].players)
            /\ SubSeq(SeatIds(db'.rooms[r]), 1, Len(db.rooms[r].players))
                  = SeatIds(db.rooms[r])]_vars

\* C16: when save() throws in a join, a start or a state update that got past
\* its checks, the caller is answered 500 and the store keeps the mutation,
\* the same one, applied once, that it keeps when save() succeeds; from then
\* on the store differs from DB_FILE.
SinkFailureKeepsMutation ==
    /\ [](\A t \in Tokens, r \in Targets :
            JoinHandler(db, t, r, TRUE).code = 200 =>
               /\ JoinHandler(db, t, r, FALSE).code = 500
               /\ JoinHandler(db, t, r, FALSE).db = JoinHandler(db, t, r, TRUE).db
               /\ JoinHandler(db, t, r, FALSE).db # db
               /\ JoinHandler(db, t, r, FALSE).db.rooms[r].revision
                     = db.rooms[r].revision + 1)
    /\ [](\A req \in ParkedOn("start"), text \in StateTexts :
            /\ StartResume(db, req, text, FALSE).code = 500
            /\ StartResume(db, req, text, FALSE).db = StartResume(db, req, text, TRUE).db
            /\ StartResume(db, req, text, FALSE).db # db
            /\ StartResume(db, req, text, FALSE).db.rooms[req.roomId].revision
                  = db.rooms[req.roomId].revision + 1)
    /\ [](\A req \in ParkedOn("state"), text \in StateTexts, w \in Winners :
            /\ StateResume(db, req, text, w, FALSE).code = 500
            /\ StateResume(db, req, text, w, FALSE).db
                  = StateResume(db, req, text, w, TRUE).db
            /\ StateResume(db, req, text, w, FALSE).db # db
            /\ StateResume(db, req, text, w, FALSE).db.rooms[req.roomId].revision
                  = db.rooms[req.roomId].revision + 1)
    /\ [][\A r \in Rooms :
             (diskCurrent /\ ~diskCurrent' /\ accepted'[r] = accepted[r] + 1) =>
                /\ db'.rooms[r].revision = db.rooms[r].revision + 1
                /\ db' # db]_vars

\* A match was started and concluded, a save() failed, and the store, with
\* the history entry, is ahead of DB_FILE.
SinkFailureWitness ==
    \E r \in Rooms :
       /\ ~diskCurrent /\ Parked(r) = 0
       /\ accepted[r] = db.rooms[r].revision /\ accepted[r] >= 3
       /\ EntriesOf(db.history, r) = 1

Refusals == {400, 401, 403, 404}

\* C17: a refused room operation leaves the store as it is.  A join or a read
\* that answers 400, 401 or 404 returns the store unchanged; a caller without
\* a session is refused by every operation with 401 and a caller naming an
\* unknown room with 404; and a room, the history and the stats change only
\* in the step of a join that got past its checks or of a start or state
\* update that did and is resumed, never in the step of a refused request.
RejectedChangesNothing ==
    /\ [](\A t \in Tokens, r \in Targets, ok \in BOOLEAN :
            /\ JoinHandler(db, t, r, ok).code \in Refusals =>
                  JoinHandler(db, t, r, ok).db = db
            /\ ReadHandler(db, t, r, ok).code \in Refusals =>
                  ReadHandler(db, t, r, ok).db = db
            /\ authUser(db, t) = 0 =>
                  /\ JoinHandler(db, t, r, ok).code = 401
                  /\ ReadHandler(db, t, r, ok).code = 401
                  /\ StartCheck(db, t, r) = 401 /\ StateCheck(db, t, r) = 401
            /\ (authUser(db, t) # 0 /\ r \notin Rooms) =>
                  /\ JoinHandler(db, t, r, ok).code = 404
                  /\ ReadHandler(db, t, r, ok).code = 404
                  /\ StartCheck(db, t, r) = 404 /\ StateCheck(db, t, r) = 404)
    /\ [][/\ \A r \in Rooms :
               db'.rooms[r] # db.rooms[r] =>
                  /\ accepted'[r] = accepted[r] + 1
                  /\ \/ \E req \in ParkedOn("start") \cup ParkedOn("state") :
                           req.roomId = r /\ inflight' = Resume(req)
                     \/ \E t \in Tokens, ok \in BOOLEAN :
                           /\ Mutates(JoinHandler(db, t, r, ok))
                           /\ db' = JoinHandler(db, t, r, ok).db
          /\ (db'.history # db.history
                 \/ SubSeq(StatsOf(db'), 1, Len(db.users)) # StatsOf(db)) =>
                \E req \in ParkedOn("state") : inflight' = Resume(req)]_vars

\* A started room with two seats and a registered user without a seat: the
\* user's join is refused with 400 and their start and state update with 403.
RefusalsWitness ==
    \E r \in Rooms, t \in Callers :
       /\ db.rooms[r].started /\ Len(db.rooms[r].players) = 2
       /\ db.rooms[r].revision >= 2
       /\ JoinHandler(db, t, r, TRUE).code = 400
       /\ StartCheck(db, t, r) = 403 /\ StateCheck(db, t, r) = 403

\* C18, as claimed: a started room holds 2 to 4 seats and its host has one of
\* them, however joins and starts interleave.
StartedRoomHasTwoToFour ==
    \A r \in Rooms :
       db.rooms[r].started =>
          /\ 2 <= Len(db.rooms[r].players) /\ Len(db.rooms[r].players) <= 4
          /\ Seated(db.rooms[r], db.rooms[r].hostId)

\* C19: a room never has more history entries than starts that were applied
\* to it, also when reports of a winner overlap.
HistoryWithinStarts ==
    \A r \in Rooms : EntriesOf(db.history, r) <= starts[r]

\* A room was started twice and then concluded once, by one of two reports
\* that named a seated winner.
HistoryWithinStartsWitness ==
    \E r \in Rooms :
       /\ starts[r] = 2 /\ reports[r] >= 1
       /\ EntriesOf(db.history, r) = 1 /\ ~db.rooms[r].started

\* The sum of f(s[k]) over the elements of the sequence s.
RECURSIVE SumOf(_, _)
SumOf(f(_), s) == IF s = <<>> THEN 0 ELSE f(Head(s)) + SumOf(f, Tail(s))

WinsOf(user) == user.stats.wins
LossesOf(user) == user.stats.losses
LosersOf(entry) == Len(entry.players) - 1

\* C20: the users' wins add up to the number of history entries and their
\* losses to the sum, over the entries, of the entry's player count less one;
\* for any two users A and B, A's wins against B are at most B's losses
\* against A; and no wins, losses or vs counter ever decreases.
StatsMatchHistory ==
    /\ [](/\ SumOf(WinsOf, db.users) = Len(db.history)
           /\ SumOf(LossesOf, db.users) = SumOf(LosersOf, db.history)
           /\ \A a, b \in 1..Len(db.users) :
                 VsCount(db.users[a], db.users[b].username, "wins")
                    <= VsCount(db.users[b], db.users[a].username, "losses"))
    /\ [][\A i \in 1..Len(db.users) :
            /\ db'.users[i].stats.wins >= db.users[i].stats.wins
            /\ db'.users[i].stats.losses >= db.users[i].stats.losses
            /\ \A name \in Names, field \in {"wins", "losses"} :
                  VsCount(db'.users[i], name, field)
                     >= VsCount(db.users[i], name, field)]_vars

\* A match of three players is in the history: one win and two losses are
\* counted, and the winner has a win against each of the two others.
StatsWitness ==
    /\ Len(db.history) = 1 /\ SumOf(LosersOf, db.history) = 2
    /\ SumOf(WinsOf, db.users) = 1 /\ SumOf(LossesOf, db.users) = 2
    /\ \E a \in 1..Len(db.users) :
          Cardinality({b \in 1..Len(db.users) :
             VsCount(db.users[a], db.users[b].username, "wins") = 1}) = 2

====
